---- MODULE Spec2Model ----
(***************************************************************************)
(* Notes-WebApp backend: the note store, the sharing / access-control      *)
(* handlers, the public share link and the version archive, modelled as a  *)
(* state machine over the MongoDB collections the handlers read and write. *)
(*                                                                         *)
(* One action per express handler.  Every handler ends by writing the      *)
(* response into resp (status code, error message, disclosed documents).   *)
(***************************************************************************)
EXTENDS Integers, Sequences, FiniteSets, TLC

VARIABLES
    users,          \* User collection: sequence of documents, _id = index
    notes,          \* Note collection: function from existing _id to document
    nextNoteId,     \* next fresh Note _id (ObjectIds are never reused)
    versions,       \* NoteVersion collection: sequence of documents in insertion order
    nextVersionId,  \* next fresh NoteVersion _id
    issued,         \* history: issued[t] = note the share token t was generated for
    now,            \* wall clock, in hours
    resp,           \* the response of the last handler that ran, or the dispatches of the last sweep
    reqs,           \* stored __v of note 1 and the requests in flight
    scheduler,      \* isSchedulerRunning and the number of cron tasks scheduled
    client          \* the browser's API client: isRefreshing, failedQueue, its requests, localStorage

vars == <<users, notes, nextNoteId, versions, nextVersionId, issued, now, resp, reqs,
          scheduler, client>>

----------------------------------------------------------------------------
(* Bounds of the model *)

MaxNotes == 2
MaxVersionIds == 2
MaxTokens == 2
MaxTime == 2
MaxReqs == 2
MaxTasks == 3

NoteIds == 1..MaxNotes             \* ids a request may name; a note not yet created or deleted is not found

----------------------------------------------------------------------------
(* Values *)

NoToken == 0                        \* shareToken: undefined
NoReminder == -1                    \* reminderAt: null
NoExpiry == -1                      \* shareTokenExpiry: null / undefined
NoUser == 0                         \* findOne found no user; unauthenticated caller
NoNote == 0

Undefined == "undefined"            \* a string-valued request field that is absent

\* Optional request fields of other types: {} is undefined, {v} is the value v
None == {}
Some(v) == {v}
IsSome(o) == o # {}
Val(o) == CHOOSE v \in o : TRUE

\* E-mail addresses are short character sequences.
Lower(c) == CASE c = "A" -> "a" [] c = "B" -> "b" [] OTHER -> c

\* new RegExp(`^${email}$`, 'i').test(s): the request text is used as the
\* pattern unescaped, so "." stands for any character
RegexMatchI(pattern, s) ==
    /\ Len(pattern) = Len(s)
    /\ \A i \in 1..Len(s) : pattern[i] = "." \/ Lower(pattern[i]) = Lower(s[i])

\* User.findOne({ email: { $regex: ... } }): first matching document, 0 if none
UserFindOneByEmail(email) ==
    LET hits == {u \in DOMAIN users : RegexMatchI(email, users[u].email)}
    IN IF hits = {} THEN NoUser ELSE CHOOSE u \in hits : \A v \in hits : u <= v

\* the ownership check left out
NotOwnerUnchecked(note, caller) == FALSE

\* note.userId.toString() !== req.user._id.toString()
NotOwner(note, caller) == note.userId # caller

\* the comparison done on the ObjectId itself instead of its string: no entry
\* ever compares equal
ShareIndexOfNoToString(sharedWith, uid) == 0

\* the two ObjectIds compared as objects: never identical
IsSelfNoToString(userToShare, caller) == FALSE

\* userToShare._id.toString() === req.user._id.toString()
IsSelf(userToShare, caller) == userToShare = caller

\* note.sharedWith.find / findIndex by userId: 1-based index of the first
\* entry of the user, 0 when there is none
ShareIndexOf(sharedWith, uid) ==
    LET hits == {i \in 1..Len(sharedWith) : sharedWith[i].userId = uid}
    IN IF hits = {} THEN 0 ELSE CHOOSE i \in hits : \A j \in hits : i <= j

\* the pushed subdocument with the invitation already accepted
NewShareAccepted(uid, permission) ==
    [userId |-> uid, permission |-> permission, status |-> "accepted"]

\* the subdocument shareNote pushes
NewShare(uid, permission) ==
    [userId |-> uid, permission |-> permission, status |-> "pending"]

\* the permission change done by replacing the entry with a fresh one
SetPermissionFresh(sharedWith, idx, permission) ==
    [sharedWith EXCEPT ![idx] = [userId |-> sharedWith[idx].userId,
                                 permission |-> permission, status |-> "pending"]]

\* alreadyShared.permission = permission
SetPermission(sharedWith, idx, permission) ==
    [sharedWith EXCEPT ![idx].permission = permission]

\* note.sharedWith.filter(share => share.userId.toString() !== userId)
FilterOutUser(sharedWith, uid) ==
    SelectSeq(sharedWith, LAMBDA s : s.userId # uid)

\* note.sharedWith.splice(idx, 1)
Splice(seq, idx) ==
    [i \in 1..(Len(seq) - 1) |-> IF i < idx THEN seq[i] ELSE seq[i + 1]]

\* Note.create({ userId, title, content, tags }) with the schema defaults
NewNote(caller, title, content, tags) ==
    [userId |-> caller, title |-> title, content |-> content, tags |-> tags,
     sharedWith |-> <<>>, shareToken |-> NoToken, shareTokenExpiry |-> NoExpiry,
     reminderAt |-> NoReminder, reminderStatus |-> "none"]

----------------------------------------------------------------------------
(* Responses *)

NoBody == {}

\* one document of a response body; "-" marks a field the handler leaves out,
\* num carries a versionNumber or a share token
Doc(n, title, content, tags, perm, num) ==
    [note |-> n, title |-> title, content |-> content, tags |-> tags,
     perm |-> perm, num |-> num]

\* arg and target echo the request: the permission / status asked for, and the
\* user (userToShare, :userId), version (:versionId) or token (:token) it names
Response(op, caller, id, arg, target, status, msg, body) ==
    [op |-> op, caller |-> caller, note |-> id, arg |-> arg, target |-> target,
     status |-> status, msg |-> msg, body |-> body]

\* res.status(code); throw new Error(msg): nothing is written to the store
Fail(op, caller, id, arg, target, status, msg) ==
    /\ resp' = Response(op, caller, id, arg, target, status, msg, NoBody)
    /\ UNCHANGED <<users, scheduler, client, notes, nextNoteId, versions, nextVersionId, issued, now, reqs>>

\* the scheduler once server.js has called startReminderScheduler(): the flag
\* is set and one cron task is scheduled
Started == [isSchedulerRunning |-> TRUE, tasks |-> 1]

\* the API client of a freshly loaded page of a logged-in user: no refresh
\* running, nothing queued, no request made, a refresh token in localStorage
Idle == [isRefreshing |-> FALSE, failedQueue |-> << >>, requests |-> << >>,
         refreshToken |-> TRUE]

----------------------------------------------------------------------------
(* Note store *)

createNote(caller, title, content, tags) ==
    /\ nextNoteId <= MaxNotes
    /\ IF title = ""
       THEN Fail("createNote", caller, NoNote, "-", 0, 400, "Please provide a title")
       ELSE /\ notes' = (nextNoteId :> NewNote(caller, title, content, tags)) @@ notes
            /\ nextNoteId' = nextNoteId + 1
            /\ resp' = Response("createNote", caller, nextNoteId, "-", 0, 201, "",
                                {Doc(nextNoteId, title, content, tags, "-", 0)})
            /\ UNCHANGED <<users, scheduler, client, versions, nextVersionId, issued, now, reqs>>

deleteNote(caller, id) ==
    IF id \notin DOMAIN notes
    THEN Fail("deleteNote", caller, id, "-", 0, 404, "Note not found")
    ELSE IF NotOwner(notes[id], caller)
    THEN Fail("deleteNote", caller, id, "-", 0, 403, "Not authorized to delete this note")
    ELSE /\ notes' = [n \in DOMAIN notes \ {id} |-> notes[n]]
         /\ resp' = Response("deleteNote", caller, id, "-", 0, 200, "Note deleted successfully", NoBody)
         /\ UNCHANGED <<users, scheduler, client, nextNoteId, versions, nextVersionId, issued, now, reqs>>

----------------------------------------------------------------------------
(* Sharing & access control *)

shareNote(caller, id, email, permissionIn) ==
    LET permission == IF permissionIn = Undefined THEN "view" ELSE permissionIn
        F(status, msg) == Fail("shareNote", caller, id, permission, NoUser, status, msg)
    IN
    IF email = <<>> THEN F(400, "Please provide user email")
    ELSE IF permission \notin {"view", "edit"} THEN F(400, "Invalid permission")
    ELSE IF id \notin DOMAIN notes THEN F(404, "Note not found")
    ELSE IF NotOwner(notes[id], caller) THEN F(403, "Not authorized to share this note")
    ELSE
    LET note == notes[id]
        userToShare == UserFindOneByEmail(email)
        alreadyShared == ShareIndexOf(note.sharedWith, userToShare)
        G(status, msg) == Fail("shareNote", caller, id, permission, userToShare, status, msg)
        Save(sharedWith, msg) ==
            /\ notes' = [notes EXCEPT ![id].sharedWith = sharedWith]
            /\ resp' = Response("shareNote", caller, id, permission, userToShare, 200, msg, NoBody)
            /\ UNCHANGED <<users, scheduler, client, nextNoteId, versions, nextVersionId, issued, now, reqs>>
    IN
    IF userToShare = NoUser THEN G(404, "User not found with email")
    ELSE IF IsSelf(userToShare, caller) THEN G(400, "Cannot share note with yourself")
    ELSE IF alreadyShared # 0
    THEN IF note.sharedWith[alreadyShared].permission # permission
         THEN Save(SetPermission(note.sharedWith, alreadyShared, permission), "Permission updated")
         ELSE G(400, "Note already shared with this user")
    ELSE Save(Append(note.sharedWith, NewShare(userToShare, permission)), "Note shared successfully")

respondToShareRequest(caller, id, status) ==
    LET F(code, msg) == Fail("respondToShareRequest", caller, id, status, 0, code, msg)
    IN
    IF status \notin {"accepted", "rejected"} THEN F(400, "Invalid status")
    ELSE IF id \notin DOMAIN notes THEN F(404, "Note not found")
    ELSE
    LET note == notes[id]
        shareIndex == ShareIndexOf(note.sharedWith, caller)
        Save(sharedWith, msg) ==
            /\ notes' = [notes EXCEPT ![id].sharedWith = sharedWith]
            /\ resp' = Response("respondToShareRequest", caller, id, status, 0, 200, msg, NoBody)
            /\ UNCHANGED <<users, scheduler, client, nextNoteId, versions, nextVersionId, issued, now, reqs>>
    IN
    IF shareIndex = 0 THEN F(404, "Share request not found")
    ELSE IF status = "rejected"
    THEN Save(Splice(note.sharedWith, shareIndex), "Share request rejected")
    ELSE Save([note.sharedWith EXCEPT ![shareIndex].status = "accepted"], "Share request accepted")

removeShare(caller, id, userId) ==
    IF id \notin DOMAIN notes
    THEN Fail("removeShare", caller, id, "-", userId, 404, "Note not found")
    ELSE IF NotOwner(notes[id], caller)
    THEN Fail("removeShare", caller, id, "-", userId, 403, "Not authorized")
    ELSE /\ notes' = [notes EXCEPT ![id].sharedWith = FilterOutUser(notes[id].sharedWith, userId)]
         /\ resp' = Response("removeShare", caller, id, "-", userId, 200, "Share access removed", NoBody)
         /\ UNCHANGED <<users, scheduler, client, nextNoteId, versions, nextVersionId, issued, now, reqs>>

\* the listing without the status filter
SharedWithMeUnfiltered(caller) ==
    LET found == {n \in DOMAIN notes : \E i \in DOMAIN notes[n].sharedWith :
                                           notes[n].sharedWith[i].userId = caller}
        share(n) == notes[n].sharedWith[ShareIndexOf(notes[n].sharedWith, caller)]
    IN {Doc(n, notes[n].title, notes[n].content, notes[n].tags, share(n).permission, 0) :
          n \in found}

\* Note.find({ 'sharedWith.userId': caller }), then keep the notes whose first
\* entry for the caller is accepted, annotated with that entry's permission
SharedWithMe(caller) ==
    LET found == {n \in DOMAIN notes : \E i \in DOMAIN notes[n].sharedWith :
                                           notes[n].sharedWith[i].userId = caller}
        share(n) == notes[n].sharedWith[ShareIndexOf(notes[n].sharedWith, caller)]
    IN {Doc(n, notes[n].title, notes[n].content, notes[n].tags, share(n).permission, 0) :
          n \in {m \in found : share(m).status = "accepted"}}

getSharedWithMe(caller) ==
    /\ resp' = Response("getSharedWithMe", caller, NoNote, "-", 0, 200, "", SharedWithMe(caller))
    /\ UNCHANGED <<users, scheduler, client, notes, nextNoteId, versions, nextVersionId, issued, now, reqs>>

\* Note.find({ sharedWith: { $elemMatch: { userId: caller, status: 'pending' } } }),
\* projected to the invitation card (title and owner)
PendingShares(caller) ==
    LET found == {n \in DOMAIN notes : \E i \in DOMAIN notes[n].sharedWith :
                                           /\ notes[n].sharedWith[i].userId = caller
                                           /\ notes[n].sharedWith[i].status = "pending"}
    IN {Doc(n, notes[n].title, "-", <<"-">>, "-", 0) : n \in found}

getPendingShares(caller) ==
    /\ resp' = Response("getPendingShares", caller, NoNote, "-", 0, 200, "", PendingShares(caller))
    /\ UNCHANGED <<users, scheduler, client, notes, nextNoteId, versions, nextVersionId, issued, now, reqs>>

----------------------------------------------------------------------------
(* Public share link *)

\* expiry = expiresIn ? now + expiresIn hours : null
LinkExpiry(expiresIn) ==
    IF IsSome(expiresIn) /\ Val(expiresIn) # 0 THEN now + Val(expiresIn) ELSE NoExpiry

\* a link that is only generated when the note has none yet
SetLinkOnce(note, token, expiry) ==
    IF note.shareToken # 0 /\ token # 0
    THEN note
    ELSE [note EXCEPT !.shareToken = token, !.shareTokenExpiry = expiry]

\* note.shareToken = token; note.shareTokenExpiry = expiry
SetLink(note, token, expiry) ==
    [note EXCEPT !.shareToken = token, !.shareTokenExpiry = expiry]

\* generateShareToken(): 32 random bytes, a value no earlier call returned
generateShareToken == Len(issued) + 1

generateShareLink(caller, id, expiresIn) ==
    IF id \notin DOMAIN notes
    THEN Fail("generateShareLink", caller, id, "-", 0, 404, "Note not found")
    ELSE IF NotOwner(notes[id], caller)
    THEN Fail("generateShareLink", caller, id, "-", 0, 403, "Not authorized to share this note")
    ELSE /\ Len(issued) < MaxTokens
         /\ notes' = [notes EXCEPT ![id] = SetLink(notes[id], generateShareToken, LinkExpiry(expiresIn))]
         /\ issued' = Append(issued, id)
         /\ resp' = Response("generateShareLink", caller, id, expiresIn, 0, 200, "Share link generated",
                             {Doc(id, "-", "-", <<"-">>, "-", generateShareToken)})
         /\ UNCHANGED <<users, scheduler, client, nextNoteId, versions, nextVersionId, now, reqs>>

\* Note.findOne({ shareToken: token }): the index on shareToken is unique
NoteFindOneByToken(token) ==
    LET hits == {n \in DOMAIN notes : notes[n].shareToken = token}
    IN IF hits = {} THEN NoNote ELSE CHOOSE n \in hits : TRUE

\* a link that counts as expired from the hour of its expiry on
LinkExpiredAtExpiry(note) == note.shareTokenExpiry # NoExpiry /\ now >= note.shareTokenExpiry

\* note.shareTokenExpiry && new Date() > note.shareTokenExpiry
LinkExpired(note) == note.shareTokenExpiry # NoExpiry /\ now > note.shareTokenExpiry

getSharedNote(token) ==
    LET n == NoteFindOneByToken(token)
        F(status, msg) ==
            /\ resp' = Response("getSharedNote", NoUser, NoNote, "-", token, status, msg, NoBody)
            /\ UNCHANGED <<users, scheduler, client, notes, nextNoteId, versions, nextVersionId, issued, now, reqs>>
    IN
    IF n = NoNote THEN F(404, "Shared note not found")
    ELSE IF LinkExpired(notes[n]) THEN F(410, "Share link has expired")
    ELSE /\ resp' = Response("getSharedNote", NoUser, n, "-", token, 200, "",
                             {Doc(n, notes[n].title, notes[n].content, notes[n].tags, "view", token)})
         /\ UNCHANGED <<users, scheduler, client, notes, nextNoteId, versions, nextVersionId, issued, now, reqs>>

revokeShareLink(caller, id) ==
    IF id \notin DOMAIN notes
    THEN Fail("revokeShareLink", caller, id, "-", 0, 404, "Note not found")
    ELSE IF NotOwner(notes[id], caller)
    THEN Fail("revokeShareLink", caller, id, "-", 0, 403, "Not authorized")
    ELSE /\ notes' = [notes EXCEPT ![id] = SetLink(notes[id], NoToken, NoExpiry)]
         /\ resp' = Response("revokeShareLink", caller, id, "-", 0, 200, "Share link revoked", NoBody)
         /\ UNCHANGED <<users, scheduler, client, nextNoteId, versions, nextVersionId, issued, now, reqs>>

\* the passage of one hour
Tick ==
    /\ now < MaxTime
    /\ now' = now + 1
    /\ UNCHANGED <<users, scheduler, client, notes, nextNoteId, versions, nextVersionId, issued, resp, reqs>>

----------------------------------------------------------------------------
(* Note store: reads and update *)

\* getNotes' query: { $or: [ { userId }, { sharedWith: { $elemMatch:
\* { userId, status: 'accepted' } } } ] }.  The archived, tag and search
\* parameters only narrow this result and are left out.
NotesQuery(caller) ==
    {n \in DOMAIN notes :
        \/ notes[n].userId = caller
        \/ \E i \in DOMAIN notes[n].sharedWith :
              /\ notes[n].sharedWith[i].userId = caller
              /\ notes[n].sharedWith[i].status = "accepted"}

\* the permission getNotes annotates a listed note with
ListedPermission(note, caller) ==
    IF note.userId = caller THEN "edit"
    ELSE LET idx == ShareIndexOf(note.sharedWith, caller)
         IN IF idx # 0 THEN note.sharedWith[idx].permission ELSE "view"

getNotes(caller) ==
    /\ resp' = Response("getNotes", caller, NoNote, "-", 0, 200, "",
                        {Doc(n, notes[n].title, notes[n].content, notes[n].tags,
                             ListedPermission(notes[n], caller), 0) : n \in NotesQuery(caller)})
    /\ UNCHANGED <<users, scheduler, client, notes, nextNoteId, versions, nextVersionId, issued, now, reqs>>

getNoteById(caller, id) ==
    IF id \notin DOMAIN notes
    THEN Fail("getNoteById", caller, id, "-", 0, 404, "Note not found")
    ELSE IF NotOwner(notes[id], caller)
    THEN Fail("getNoteById", caller, id, "-", 0, 403, "Not authorized to access this note")
    ELSE /\ resp' = Response("getNoteById", caller, id, "-", 0, 200, "",
                             {Doc(id, notes[id].title, notes[id].content, notes[id].tags, "-", 0)})
         /\ UNCHANGED <<users, scheduler, client, notes, nextNoteId, versions, nextVersionId, issued, now, reqs>>

\* the guard of updateNote: who may not update the note
UpdateDenied(note, caller) == NotOwner(note, caller)

\* note.title = title || note.title; note.content = content || note.content;
\* note.tags = tags !== undefined ? tags : note.tags; reminderAt and
\* reminderStatus likewise (a reminderAt of null is a given value)
ApplyUpdate(note, title, content, tags, reminderAt, reminderStatus) ==
    [note EXCEPT !.title = IF title \in {Undefined, ""} THEN note.title ELSE title,
                 !.content = IF content \in {Undefined, ""} THEN note.content ELSE content,
                 !.tags = IF IsSome(tags) THEN Val(tags) ELSE note.tags,
                 !.reminderAt = IF IsSome(reminderAt) THEN Val(reminderAt) ELSE note.reminderAt,
                 !.reminderStatus = IF reminderStatus = Undefined THEN note.reminderStatus
                                    ELSE reminderStatus]

\* noteSchema.reminderStatus: enum ['pending', 'sent', 'none']
ReminderStatusEnum == {"pending", "sent", "none"}

updateNote(caller, id, title, content, tags, reminderAt, reminderStatus) ==
    IF id \notin DOMAIN notes
    THEN Fail("updateNote", caller, id, "-", 0, 404, "Note not found")
    ELSE IF UpdateDenied(notes[id], caller)
    THEN Fail("updateNote", caller, id, "-", 0, 403, "Not authorized to update this note")
    ELSE LET updated == ApplyUpdate(notes[id], title, content, tags, reminderAt, reminderStatus)
         IN IF updated.reminderStatus \notin ReminderStatusEnum
            THEN Fail("updateNote", caller, id, "-", 0, 500, "Note validation failed")
            ELSE
            /\ notes' = [notes EXCEPT ![id] = updated]
            /\ resp' = Response("updateNote", caller, id, "-", 0, 200, "",
                                {Doc(id, updated.title, updated.content, updated.tags, "-", 0)})
            /\ UNCHANGED <<users, scheduler, client, nextNoteId, versions, nextVersionId, issued, now, reqs>>

----------------------------------------------------------------------------
(* Version archive *)

VersionCap == 20

\* indices of the NoteVersion documents of a note
VersionsOf(vs, n) == {i \in DOMAIN vs : vs[i].noteId = n}

\* NoteVersion.countDocuments({ noteId })
CountVersions(vs, n) == Cardinality(VersionsOf(vs, n))

\* the documents of the note with the greatest createdAt
NewestOf(vs, n) ==
    {i \in VersionsOf(vs, n) : \A j \in VersionsOf(vs, n) : vs[i].createdAt >= vs[j].createdAt}

\* candidates of findOneAndDelete({ noteId }, { sort: { createdAt: 1 } }):
\* the documents of the note with the least createdAt (equal timestamps
\* leave the choice to the database)
OldestOf(vs, n) ==
    {i \in VersionsOf(vs, n) : \A j \in VersionsOf(vs, n) : vs[i].createdAt <= vs[j].createdAt}

RemoveAt(seq, idx) ==
    [i \in 1..(Len(seq) - 1) |-> IF i < idx THEN seq[i] ELSE seq[i + 1]]

\* schema validation of a NoteVersion: title and content are required
\* strings, and an empty string does not satisfy required
VersionValid(doc) == doc.title # "" /\ doc.content # ""

\* a snapshot that leaves the tags out
SnapshotWithoutTags(id, note, caller) ==
    [id |-> nextVersionId, noteId |-> id, title |-> note.title, content |-> note.content,
     tags |-> << >>, versionNumber |-> CountVersions(versions, id) + 1,
     createdBy |-> caller, createdAt |-> now]

\* the document createVersion / restoreVersion hand to NoteVersion.create
Snapshot(id, note, caller) ==
    [id |-> nextVersionId, noteId |-> id, title |-> note.title, content |-> note.content,
     tags |-> note.tags, versionNumber |-> CountVersions(versions, id) + 1,
     createdBy |-> caller, createdAt |-> now]

\* NoteVersion.create(doc) once validation has passed: the pre('save') hook
\* deletes the oldest version of the note when it already has VersionCap of
\* them, then the document is inserted
InsertVersion(doc) ==
    /\ nextVersionId' = nextVersionId + 1
    /\ IF CountVersions(versions, doc.noteId) >= VersionCap
       THEN \E victim \in OldestOf(versions, doc.noteId) :
               versions' = Append(RemoveAt(versions, victim), doc)
       ELSE versions' = Append(versions, doc)

createVersion(caller, id) ==
    IF id \notin DOMAIN notes
    THEN Fail("createVersion", caller, id, "-", 0, 404, "Note not found")
    ELSE IF NotOwner(notes[id], caller)
    THEN Fail("createVersion", caller, id, "-", 0, 403, "Not authorized")
    ELSE LET doc == Snapshot(id, notes[id], caller)
         IN IF ~VersionValid(doc)
            THEN Fail("createVersion", caller, id, "-", 0, 500, "NoteVersion validation failed")
            ELSE /\ nextVersionId <= MaxVersionIds
                 /\ InsertVersion(doc)
                 /\ resp' = Response("createVersion", caller, id, "-", 0, 201, "",
                                     {Doc(id, doc.title, doc.content, doc.tags, "-", doc.versionNumber)})
                 /\ UNCHANGED <<users, scheduler, client, notes, nextNoteId, issued, now, reqs>>

\* hasAccess of getVersionHistory and getVersion
HasVersionAccess(note, caller) ==
    \/ note.userId = caller
    \/ \E i \in DOMAIN note.sharedWith : note.sharedWith[i].userId = caller

\* find({ noteId }).sort({ createdAt: -1 }).limit(20).select('title versionNumber createdAt')
getVersionHistory(caller, id) ==
    IF id \notin DOMAIN notes
    THEN Fail("getVersionHistory", caller, id, "-", 0, 404, "Note not found")
    ELSE IF ~HasVersionAccess(notes[id], caller)
    THEN Fail("getVersionHistory", caller, id, "-", 0, 403, "Not authorized")
    ELSE /\ resp' = Response("getVersionHistory", caller, id, "-", 0, 200, "",
                             {Doc(id, versions[i].title, "-", <<"-">>, "-", versions[i].versionNumber) :
                                 i \in VersionsOf(versions, id)})
         /\ UNCHANGED <<users, scheduler, client, notes, nextNoteId, versions, nextVersionId, issued, now, reqs>>

\* a lookup that ignores the version id and takes the note's newest version
VersionFindNewest(versionId, id) ==
    IF VersionsOf(versions, id) = {} THEN 0
    ELSE CHOOSE i \in VersionsOf(versions, id) : \A j \in VersionsOf(versions, id) : j <= i

\* a lookup by version id alone, whatever note the version belongs to
VersionFindOfAnyNote(versionId, id) ==
    LET hits == {i \in DOMAIN versions : versions[i].id = versionId}
    IN IF hits = {} THEN 0 ELSE CHOOSE i \in hits : TRUE

\* NoteVersion.findOne({ _id: versionId, noteId }): index of the document, 0 if none
VersionFindOne(versionId, id) ==
    LET hits == {i \in VersionsOf(versions, id) : versions[i].id = versionId}
    IN IF hits = {} THEN 0 ELSE CHOOSE i \in hits : TRUE

getVersion(caller, id, versionId) ==
    IF id \notin DOMAIN notes
    THEN Fail("getVersion", caller, id, "-", versionId, 404, "Note not found")
    ELSE IF ~HasVersionAccess(notes[id], caller)
    THEN Fail("getVersion", caller, id, "-", versionId, 403, "Not authorized")
    ELSE LET v == VersionFindOne(versionId, id)
         IN IF v = 0
            THEN Fail("getVersion", caller, id, "-", versionId, 404, "Version not found")
            ELSE /\ resp' = Response("getVersion", caller, id, "-", versionId, 200, "",
                                     {Doc(id, versions[v].title, versions[v].content,
                                          versions[v].tags, "-", versions[v].versionNumber)})
                 /\ UNCHANGED <<users, scheduler, client, notes, nextNoteId, versions, nextVersionId, issued, now, reqs>>

restoreVersion(caller, id, versionId) ==
    IF id \notin DOMAIN notes
    THEN Fail("restoreVersion", caller, id, "-", versionId, 404, "Note not found")
    ELSE IF NotOwner(notes[id], caller)
    THEN Fail("restoreVersion", caller, id, "-", versionId, 403, "Only note owner can restore versions")
    ELSE LET v == VersionFindOne(versionId, id)
             doc == Snapshot(id, notes[id], caller)
         IN IF v = 0
            THEN Fail("restoreVersion", caller, id, "-", versionId, 404, "Version not found")
            ELSE IF ~VersionValid(doc)
            THEN Fail("restoreVersion", caller, id, "-", versionId, 500, "NoteVersion validation failed")
            ELSE /\ nextVersionId <= MaxVersionIds
                 /\ InsertVersion(doc)
                 /\ notes' = [notes EXCEPT ![id].title = versions[v].title,
                                           ![id].content = versions[v].content,
                                           ![id].tags = versions[v].tags]
                 /\ resp' = Response("restoreVersion", caller, id, "-", versionId, 200, "Version restored successfully",
                                     {Doc(id, versions[v].title, versions[v].content, versions[v].tags, "-", 0)})
                 /\ UNCHANGED <<users, scheduler, client, nextNoteId, issued, now, reqs>>

----------------------------------------------------------------------------
(* Reminder scheduler *)

\* a query that selects the reminders that fall due in the current hour
DueThisHour ==
    {n \in DOMAIN notes : notes[n].reminderAt = now /\ notes[n].reminderStatus = "pending"}

\* a query that selects every pending reminder, due or not
PendingNotes == {n \in DOMAIN notes : notes[n].reminderStatus = "pending"}

\* Note.find({ reminderAt: { $lte: now }, reminderStatus: 'pending' }); a
\* null reminderAt matches no $lte
DueNotes ==
    {n \in DOMAIN notes :
        /\ notes[n].reminderAt # NoReminder
        /\ notes[n].reminderAt <= now
        /\ notes[n].reminderStatus = "pending"}

\* the documents of a find() in the order of their _id
RECURSIVE InIdOrder(_)
InIdOrder(ids) ==
    IF ids = {} THEN << >>
    ELSE LET first == CHOOSE n \in ids : \A m \in ids : n <= m
         IN <<first>> \o InIdOrder(ids \ {first})

\* one pass of the loop body: sendReminderEmail to the owner, which throws
\* for the notes in failing
Attempt(n, failing) ==
    [note |-> n, to |-> users[notes[n].userId].email,
     outcome |-> IF n \in failing THEN "failed" ELSE "sent"]

\* a loop that a failed dispatch ends
RECURSIVE AttemptsUntilFailure(_, _)
AttemptsUntilFailure(due, failing) ==
    IF due = << >> THEN << >>
    ELSE IF Head(due) \in failing THEN <<Attempt(Head(due), failing)>>
    ELSE <<Attempt(Head(due), failing)>> \o AttemptsUntilFailure(Tail(due), failing)

\* for (const note of dueNotes) { try { send; mark sent } catch { log } }
RECURSIVE Attempts(_, _)
Attempts(due, failing) ==
    IF due = << >> THEN << >>
    ELSE <<Attempt(Head(due), failing)>> \o Attempts(Tail(due), failing)

\* one sweep; failing is the set of due notes whose dispatch throws
checkReminders ==
    \E failing \in SUBSET DueNotes :
        LET log == Attempts(InIdOrder(DueNotes), failing)
            Sent(n) == \E i \in DOMAIN log : log[i].note = n /\ log[i].outcome = "sent"
        IN /\ notes' = [n \in DOMAIN notes |->
                           IF Sent(n) THEN [notes[n] EXCEPT !.reminderStatus = "sent"]
                           ELSE notes[n]]
           /\ resp' = Response("checkReminders", NoUser, NoNote, "-", 0, 0, "", log)
           /\ UNCHANGED <<users, scheduler, client, nextNoteId, versions, nextVersionId, issued, now, reqs>>

----------------------------------------------------------------------------
(* Request inputs *)

Callers == DOMAIN users
Creators == {1}
EmailInputs == {<<>>, <<"a">>, <<"B">>, <<"c">>, <<"d">>, <<".">>}
PermissionInputs == {Undefined, "edit", "admin"}
StatusInputs == {"accepted", "rejected", "maybe"}
UserIdParams == DOMAIN users \cup {NoUser}

----------------------------------------------------------------------------
(* Sequential execution of the sharing handlers on one note: three         *)
(* registered users, user 1 has created note 1.                            *)

Init ==
    /\ users = << [email |-> <<"a">>], [email |-> <<"b">>], [email |-> <<"c">>] >>
    /\ notes = (1 :> NewNote(1, "t1", "c1", << >>))
    /\ nextNoteId = 2
    /\ versions = << >>
    /\ nextVersionId = 1
    /\ issued = << >>
    /\ now = 0
    /\ resp = Response("none", NoUser, NoNote, "-", 0, 0, "", NoBody)
    /\ reqs = [v |-> 0, inflight |-> << >>]
    /\ scheduler = Started
    /\ client = Idle

\* the id of the note and an id no note has
OneNoteIds == {1, 2}

Next ==
    \/ \E caller \in Callers, id \in OneNoteIds : deleteNote(caller, id)
    \/ \E caller \in Callers, id \in OneNoteIds, email \in EmailInputs, permission \in PermissionInputs :
          shareNote(caller, id, email, permission)
    \/ \E caller \in Callers, id \in OneNoteIds, status \in StatusInputs :
          respondToShareRequest(caller, id, status)
    \/ \E caller \in Callers, id \in OneNoteIds, userId \in UserIdParams : removeShare(caller, id, userId)
    \/ \E caller \in Callers : getSharedWithMe(caller)
    \/ \E caller \in Callers : getPendingShares(caller)

Spec == Init /\ [][Next]_vars

----------------------------------------------------------------------------
(* Sequential execution of the sharing and listing handlers over several   *)
(* notes: users 1 and 2 create notes and share them with each other.       *)

ListCallers == {1, 2}

NextLists ==
    \/ \E caller \in ListCallers : createNote(caller, "t2", "", << >>)
    \/ \E caller \in ListCallers, id \in NoteIds : deleteNote(caller, id)
    \/ \E caller \in ListCallers, id \in NoteIds, email \in {<<"A">>, <<"B">>},
          permission \in {"view", "edit"} :
          shareNote(caller, id, email, permission)
    \/ \E caller \in ListCallers, id \in NoteIds, status \in {"accepted", "rejected"} :
          respondToShareRequest(caller, id, status)
    \/ \E caller \in ListCallers, id \in NoteIds, userId \in ListCallers :
          removeShare(caller, id, userId)
    \/ \E caller \in ListCallers : getSharedWithMe(caller)
    \/ \E caller \in ListCallers : getPendingShares(caller)

SpecLists == Init /\ [][NextLists]_vars

----------------------------------------------------------------------------
(* Sequential execution of every handler that touches one shared note: the *)
(* note of user 1, user 2 the invited user.                                *)

AccessCallers == {1, 2}
VersionIds == 1..MaxVersionIds

NextAccess ==
    \/ \E caller \in AccessCallers, id \in OneNoteIds : deleteNote(caller, id)
    \/ \E caller \in AccessCallers, id \in OneNoteIds, permission \in PermissionInputs :
          \/ shareNote(caller, id, <<"B">>, permission)
          \/ shareNote(caller, id, << >>, permission)
    \/ \E caller \in AccessCallers, id \in OneNoteIds, status \in {"accepted", "rejected"} :
          respondToShareRequest(caller, id, status)
    \/ \E caller \in AccessCallers, id \in OneNoteIds : removeShare(caller, id, 2)
    \/ \E caller \in AccessCallers, id \in OneNoteIds : generateShareLink(caller, id, None)
    \/ \E caller \in AccessCallers, id \in OneNoteIds : revokeShareLink(caller, id)
    \/ \E caller \in AccessCallers : getNotes(caller)
    \/ \E caller \in AccessCallers, id \in OneNoteIds : getNoteById(caller, id)
    \/ \E caller \in AccessCallers, id \in OneNoteIds :
          \/ updateNote(caller, id, "t2", "c2", Some(<<"x">>), None, Undefined)
          \/ updateNote(caller, id, "", Undefined, None, None, Undefined)
    \/ \E caller \in AccessCallers, id \in OneNoteIds : createVersion(caller, id)
    \/ \E caller \in AccessCallers, id \in OneNoteIds : getVersionHistory(caller, id)
    \/ \E caller \in AccessCallers, id \in OneNoteIds, versionId \in VersionIds :
          getVersion(caller, id, versionId)
    \/ \E caller \in AccessCallers, id \in OneNoteIds, versionId \in VersionIds :
          restoreVersion(caller, id, versionId)

SpecAccess == Init /\ [][NextAccess]_vars

----------------------------------------------------------------------------
(* Sequential execution of the public-link handlers, with time passing *)

TokenInputs == 1..(MaxTokens + 1)
ExpiresInInputs == {None, Some(0), Some(1)}

NextLink ==
    \/ \E caller \in Creators : createNote(caller, "t2", "", << >>)
    \/ \E caller \in AccessCallers, id \in NoteIds : deleteNote(caller, id)
    \/ \E caller \in AccessCallers, id \in NoteIds, expiresIn \in ExpiresInInputs :
          generateShareLink(caller, id, expiresIn)
    \/ \E caller \in AccessCallers, id \in NoteIds : revokeShareLink(caller, id)
    \/ \E token \in TokenInputs : getSharedNote(token)
    \/ Tick

SpecLink == Init /\ [][NextLink]_vars

----------------------------------------------------------------------------
(* Interleaved execution of shareNote requests. A request runs in two      *)
(* store operations: `await Note.findById` loads the document and its __v, *)
(* `await note.save()` sends the changes made to the loaded copy. save()   *)
(* sends a delta: a pushed element goes out as $push and $inc of __v with  *)
(* no condition on __v; a changed field of an array element goes out as    *)
(* $set of sharedWith.<index>.permission under the condition that the      *)
(* stored __v is still the loaded one, and fails otherwise.                *)

\* shareNote up to the resolution of Note.findById
shareNoteFind(caller, id, email, permissionIn) ==
    LET permission == IF permissionIn = Undefined THEN "view" ELSE permissionIn
        F(status, msg) == Fail("shareNote", caller, id, permission, NoUser, status, msg)
    IN
    /\ Len(reqs.inflight) < MaxReqs
    /\ IF email = <<>> THEN F(400, "Please provide user email")
       ELSE IF permission \notin {"view", "edit"} THEN F(400, "Invalid permission")
       ELSE IF id \notin DOMAIN notes THEN F(404, "Note not found")
       ELSE /\ reqs' = [reqs EXCEPT !.inflight = Append(@,
                            [caller |-> caller, id |-> id, email |-> email,
                             permission |-> permission, note |-> notes[id],
                             v |-> reqs.v, pc |-> "found"])]
            /\ UNCHANGED <<users, scheduler, client, notes, nextNoteId, versions, nextVersionId, issued, now, resp>>

\* shareNote from the owner check to the response, on the loaded copy
shareNoteSave(r) ==
    /\ r \in DOMAIN reqs.inflight
    /\ reqs.inflight[r].pc = "found"
    /\ LET req == reqs.inflight[r]
           note == req.note
           userToShare == UserFindOneByEmail(req.email)
           alreadyShared == ShareIndexOf(note.sharedWith, userToShare)
           Reply(target, status, msg) ==
               resp' = Response("shareNote", req.caller, req.id, req.permission, target, status, msg, NoBody)
           Refuse(target, status, msg) ==
               /\ Reply(target, status, msg)
               /\ reqs' = [reqs EXCEPT !.inflight[r].pc = "done"]
               /\ UNCHANGED <<users, scheduler, client, notes, nextNoteId, versions, nextVersionId, issued, now>>
       IN
       IF NotOwner(note, req.caller) THEN Refuse(NoUser, 403, "Not authorized to share this note")
       ELSE IF userToShare = NoUser THEN Refuse(userToShare, 404, "User not found with email")
       ELSE IF IsSelf(userToShare, req.caller) THEN Refuse(userToShare, 400, "Cannot share note with yourself")
       ELSE IF alreadyShared # 0
       THEN IF note.sharedWith[alreadyShared].permission # req.permission
            THEN IF req.id \in DOMAIN notes /\ reqs.v = req.v
                 THEN /\ notes' = [notes EXCEPT ![req.id].sharedWith =
                                       SetPermission(@, alreadyShared, req.permission)]
                      /\ Reply(userToShare, 200, "Permission updated")
                      /\ reqs' = [reqs EXCEPT !.inflight[r].pc = "done"]
                      /\ UNCHANGED <<users, scheduler, client, nextNoteId, versions, nextVersionId, issued, now>>
                 ELSE Refuse(userToShare, 500, "No matching document found")
            ELSE Refuse(userToShare, 400, "Note already shared with this user")
       ELSE IF req.id \in DOMAIN notes
            THEN /\ notes' = [notes EXCEPT ![req.id].sharedWith =
                                  Append(@, NewShare(userToShare, req.permission))]
                 /\ Reply(userToShare, 200, "Note shared successfully")
                 /\ reqs' = [reqs EXCEPT !.v = @ + 1, !.inflight[r].pc = "done"]
                 /\ UNCHANGED <<users, scheduler, client, nextNoteId, versions, nextVersionId, issued, now>>
            ELSE Refuse(userToShare, 500, "No matching document found")

ReqIds == 1..MaxReqs

NextConc ==
    \/ \E email \in {<<"a">>, <<"b">>, <<"C">>}, permission \in {"view", "edit"} :
          shareNoteFind(1, 1, email, permission)
    \/ \E r \in ReqIds : shareNoteSave(r)

SpecConc == Init /\ [][NextConc]_vars

----------------------------------------------------------------------------
(* Sequential execution of the version handlers on a note whose archive is *)
(* one short of the cap or at the cap.  The archive is the one user 1      *)
(* built in the hours before: the note was updated to t2/c2, snapshotted,  *)
(* updated back to t1/c1 and snapshotted once an hour since; those         *)
(* snapshots carry the ids and creation hours up to 0.                     *)

\* the snapshot taken k hours before the last one, of Preloaded in all
ArchivedVersion(k, Preloaded) ==
    [id |-> 0 - k, noteId |-> 1,
     title |-> IF k = Preloaded - 1 THEN "t2" ELSE "t1",
     content |-> IF k = Preloaded - 1 THEN "c2" ELSE "c1",
     tags |-> IF k = Preloaded - 1 THEN <<"x">> ELSE << >>,
     versionNumber |-> Preloaded - k, createdBy |-> 1, createdAt |-> 0 - k]

Archive(Preloaded) == [i \in 1..Preloaded |-> ArchivedVersion(Preloaded - i, Preloaded)]

InitVersions ==
    /\ users = << [email |-> <<"a">>], [email |-> <<"b">>], [email |-> <<"c">>] >>
    /\ notes = (1 :> NewNote(1, "t1", "c1", << >>))
    /\ nextNoteId = 2
    /\ \E Preloaded \in {VersionCap - 1, VersionCap} : versions = Archive(Preloaded)
    /\ nextVersionId = 1
    /\ issued = << >>
    /\ now = 0
    /\ resp = Response("none", NoUser, NoNote, "-", 0, 0, "", NoBody)
    /\ reqs = [v |-> 0, inflight |-> << >>]
    /\ scheduler = Started
    /\ client = Idle

\* ids of the oldest and the newest archived snapshot, and of the new ones
RestoreIds == {1 - VersionCap, 2 - VersionCap, 0} \cup VersionIds

NextVersions ==
    \/ createVersion(1, 1)
    \/ \E versionId \in RestoreIds : restoreVersion(1, 1, versionId)
    \/ \E versionId \in VersionIds : getVersion(1, 1, versionId)
    \/ updateNote(1, 1, "t3", "c3", None, None, Undefined)
    \/ Tick

SpecVersions == InitVersions /\ [][NextVersions]_vars

----------------------------------------------------------------------------
(* Interleaved execution of createVersion requests on note 1.  A request   *)
(* runs in four store operations: countDocuments in the handler, then      *)
(* inside NoteVersion.create the pre('save') hook's countDocuments, its    *)
(* findOneAndDelete when that count is at least 20, and the insert.        *)

\* createVersion up to the resolution of its NoteVersion.countDocuments
createVersionCount(caller, id) ==
    /\ Len(reqs.inflight) < MaxReqs
    /\ IF id \notin DOMAIN notes
       THEN Fail("createVersion", caller, id, "-", 0, 404, "Note not found")
       ELSE IF NotOwner(notes[id], caller)
       THEN Fail("createVersion", caller, id, "-", 0, 403, "Not authorized")
       ELSE /\ reqs' = [reqs EXCEPT !.inflight = Append(@,
                            [caller |-> caller, id |-> id, note |-> notes[id],
                             versionNumber |-> CountVersions(versions, id) + 1,
                             pc |-> "counted"])]
            /\ UNCHANGED <<users, scheduler, client, notes, nextNoteId, versions, nextVersionId, issued, now, resp>>

\* NoteVersion.create: validation, then the hook's countDocuments
preSaveCount(r) ==
    /\ r \in DOMAIN reqs.inflight
    /\ reqs.inflight[r].pc = "counted"
    /\ LET req == reqs.inflight[r]
       IN IF ~VersionValid(req.note)
          THEN /\ resp' = Response("createVersion", req.caller, req.id, "-", 0, 500,
                                   "NoteVersion validation failed", NoBody)
               /\ reqs' = [reqs EXCEPT !.inflight[r].pc = "done"]
               /\ UNCHANGED <<users, scheduler, client, notes, nextNoteId, versions, nextVersionId, issued, now>>
          ELSE /\ reqs' = [reqs EXCEPT !.inflight[r].pc =
                               IF CountVersions(versions, req.id) >= VersionCap
                               THEN "evict" ELSE "insert"]
               /\ UNCHANGED <<users, scheduler, client, notes, nextNoteId, versions, nextVersionId, issued, now, resp>>

\* the hook's findOneAndDelete({ noteId }, { sort: { createdAt: 1 } })
preSaveDelete(r) ==
    /\ r \in DOMAIN reqs.inflight
    /\ reqs.inflight[r].pc = "evict"
    /\ IF VersionsOf(versions, reqs.inflight[r].id) = {}
       THEN versions' = versions
       ELSE \E victim \in OldestOf(versions, reqs.inflight[r].id) :
               versions' = RemoveAt(versions, victim)
    /\ reqs' = [reqs EXCEPT !.inflight[r].pc = "insert"]
    /\ UNCHANGED <<users, scheduler, client, notes, nextNoteId, nextVersionId, issued, now, resp>>

\* the insert of NoteVersion.create and the 201 response
versionInsert(r) ==
    /\ r \in DOMAIN reqs.inflight
    /\ reqs.inflight[r].pc = "insert"
    /\ LET req == reqs.inflight[r]
           doc == [id |-> nextVersionId, noteId |-> req.id, title |-> req.note.title,
                   content |-> req.note.content, tags |-> req.note.tags,
                   versionNumber |-> req.versionNumber, createdBy |-> req.caller,
                   createdAt |-> now]
       IN /\ versions' = Append(versions, doc)
          /\ nextVersionId' = nextVersionId + 1
          /\ resp' = Response("createVersion", req.caller, req.id, "-", 0, 201, "",
                              {Doc(req.id, doc.title, doc.content, doc.tags, "-", doc.versionNumber)})
          /\ reqs' = [reqs EXCEPT !.inflight[r].pc = "done"]
          /\ UNCHANGED <<users, scheduler, client, notes, nextNoteId, issued, now>>

NextVersionsConc ==
    \/ \E caller \in AccessCallers : createVersionCount(caller, 1)
    \/ \E r \in ReqIds : preSaveCount(r)
    \/ \E r \in ReqIds : preSaveDelete(r)
    \/ \E r \in ReqIds : versionInsert(r)
    \/ Tick

SpecVersionsConc == InitVersions /\ [][NextVersionsConc]_vars

----------------------------------------------------------------------------
(* The reminder sweep between note updates, with time passing: user 1 has  *)
(* note 1, user 2 creates notes, the owners set and clear reminders.       *)

ReminderAtInputs == {Some(1), Some(NoReminder)}

NextReminders ==
    \/ createNote(2, "t2", "", << >>)
    \/ \E caller \in AccessCallers, id \in NoteIds, reminderAt \in ReminderAtInputs :
          updateNote(caller, id, Undefined, Undefined, None, reminderAt,
                     IF reminderAt = Some(NoReminder) THEN "none" ELSE "pending")
    \/ checkReminders
    \/ Tick

SpecReminders == Init /\ [][NextReminders]_vars

----------------------------------------------------------------------------
(* The reminder sweep under the scheduler's timer: cron runs the sweep     *)
(* every minute for as long as the process lives, and the mail service     *)
(* does not refuse a note's reminder forever.  The owner of note 1 edits   *)
(* the note and sets its reminder for hour 1.                              *)

\* a sweep in which the dispatch for note n succeeds
SweepDelivers(n) ==
    /\ n \in DueNotes
    /\ checkReminders
    /\ notes'[n].reminderStatus = "sent"

NextRemindersLive ==
    \/ \E caller \in AccessCallers, id \in OneNoteIds, title \in {Undefined, "t2"},
          content \in {Undefined, "c2"}, reminderAt \in {None, Some(1)} :
          updateNote(caller, id, title, content, None, reminderAt,
                     IF reminderAt = None THEN Undefined ELSE "pending")
    \/ checkReminders
    \/ Tick

SpecRemindersLive ==
    /\ Init
    /\ [][NextRemindersLive]_vars
    /\ WF_vars(checkReminders)
    /\ WF_vars(SweepDelivers(1))

----------------------------------------------------------------------------
(* Sweeps step by step, overlapping each other and note updates.  cron     *)
(* starts a sweep every minute whether or not the previous one has         *)
(* returned.  A sweep runs in store and mail operations: Note.find, then   *)
(* per due note the await of sendReminderEmail and the await of            *)
(* note.save(), which sends the one changed path: $set reminderStatus.     *)

\* checkReminders up to the resolution of Note.find
sweepFind ==
    /\ Len(reqs.inflight) < MaxReqs
    /\ reqs' = [reqs EXCEPT !.inflight = Append(@,
                    [due |-> InIdOrder(DueNotes),
                     read |-> [n \in DueNotes |-> notes[n]],
                     pos |-> 1, log |-> << >>,
                     pc |-> IF DueNotes = {} THEN "done" ELSE "send"])]
    /\ UNCHANGED <<users, scheduler, client, notes, nextNoteId, versions, nextVersionId, issued, now, resp>>

\* the sweep moves on to its next due note, or returns
SweepAdvance(sweep) ==
    [sweep EXCEPT !.pos = @ + 1,
                  !.pc = IF sweep.pos = Len(sweep.due) THEN "done" ELSE "send"]

\* await sendReminderEmail(...) settles: resolved (ok) or thrown and caught
sweepSend(s, ok) ==
    /\ s \in DOMAIN reqs.inflight
    /\ reqs.inflight[s].pc = "send"
    /\ LET sweep == reqs.inflight[s]
           n == sweep.due[sweep.pos]
           entry == [note |-> n, to |-> users[sweep.read[n].userId].email,
                     outcome |-> IF ok THEN "sent" ELSE "failed"]
           logged == [sweep EXCEPT !.log = Append(@, entry)]
       IN reqs' = [reqs EXCEPT !.inflight[s] =
                      IF ok THEN [logged EXCEPT !.pc = "save"] ELSE SweepAdvance(logged)]
    /\ UNCHANGED <<users, scheduler, client, notes, nextNoteId, versions, nextVersionId, issued, now, resp>>

\* note.reminderStatus = 'sent'; await note.save(): the stored document gets
\* the one path set; a save of a deleted document throws and is caught
sweepSave(s) ==
    /\ s \in DOMAIN reqs.inflight
    /\ reqs.inflight[s].pc = "save"
    /\ LET sweep == reqs.inflight[s]
           n == sweep.due[sweep.pos]
       IN /\ notes' = IF n \in DOMAIN notes
                      THEN [notes EXCEPT ![n].reminderStatus = "sent"]
                      ELSE notes
          /\ reqs' = [reqs EXCEPT !.inflight[s] = SweepAdvance(sweep)]
    /\ UNCHANGED <<users, scheduler, client, nextNoteId, versions, nextVersionId, issued, now, resp>>

NextSweeps ==
    \/ \E caller \in AccessCallers, id \in OneNoteIds, reminderAt \in {Some(1), Some(2), Some(NoReminder)} :
          updateNote(caller, id, Undefined, Undefined, None, reminderAt,
                     IF reminderAt = Some(NoReminder) THEN "none" ELSE "pending")
    \/ \E caller \in AccessCallers, id \in OneNoteIds : deleteNote(caller, id)
    \/ sweepFind
    \/ \E s \in ReqIds, ok \in BOOLEAN : sweepSend(s, ok)
    \/ \E s \in ReqIds : sweepSave(s)
    \/ Tick

SpecSweeps == Init /\ [][NextSweeps]_vars

----------------------------------------------------------------------------
(* Reminder updates through the API: any body PUT /api/notes/:id accepts,  *)
(* with or without a reminderStatus next to the reminderAt.                *)

ReminderStatusInputs == {Undefined, "pending", "none"}

NextReminderUpdates ==
    \/ \E caller \in AccessCallers, id \in OneNoteIds,
          reminderAt \in {None, Some(1), Some(2), Some(NoReminder)},
          reminderStatus \in ReminderStatusInputs :
          updateNote(caller, id, Undefined, Undefined, None, reminderAt, reminderStatus)
    \/ checkReminders
    \/ Tick

SpecReminderUpdates == Init /\ [][NextReminderUpdates]_vars

----------------------------------------------------------------------------
(* Accounts and refresh tokens.  A user document carries its e-mail, its   *)
(* refreshTokens and its __v (v).  A save that sets the whole refreshTokens *)
(* array is conditioned on the __v that was loaded and increments it; a    *)
(* save that only pushes increments it without the condition.              *)

\* the lowercase: true setter of userSchema.email
ToLowerCase(email) == [i \in DOMAIN email |-> Lower(email[i])]

\* a lookup that compares the e-mail as it was typed
UserFindOneAsTyped(email) ==
    LET hits == {u \in DOMAIN users : users[u].email = email}
    IN IF hits = {} THEN NoUser ELSE CHOOSE u \in hits : TRUE

\* User.findOne({ email }): the query value is cast through the schema's
\* setters, so it is lowercased before the comparison
UserFindOne(email) ==
    LET hits == {u \in DOMAIN users : users[u].email = ToLowerCase(email)}
    IN IF hits = {} THEN NoUser ELSE CHOOSE u \in hits : TRUE

\* jwt.sign({ id: userId }, secret, { expiresIn }): the string is determined
\* by the user id and the second it is signed in (iat)
generateRefreshToken(userId) == [id |-> userId, iat |-> now]

\* a string no secret of this server has signed
Forged == [id |-> NoUser, iat |-> 0]

\* jwt.verify(refreshToken, secret); tokens live for 7 days, longer than any run here
JwtVerify(token) == token.id # NoUser

MinPasswordLength == 6

registerUser(name, email, password) ==
    LET id == Len(users) + 1
        refreshToken == generateRefreshToken(id)
        body == [name |-> name, email |-> email, password |-> password]
        F(status, msg) == Fail("registerUser", NoUser, NoNote, body, NoUser, status, msg)
    IN
    IF name = "" \/ email = << >> \/ password = ""
    THEN F(400, "Please provide all required fields")
    ELSE IF UserFindOne(email) # NoUser
    THEN F(400, "User already exists with this email")
    ELSE IF Len(password) < MinPasswordLength
    THEN F(500, "User validation failed")
    ELSE IF \E u \in DOMAIN users : users[u].email = ToLowerCase(email)
    THEN F(500, "E11000 duplicate key error")
    ELSE /\ users' = Append(users, [email |-> ToLowerCase(email),
                                    refreshTokens |-> <<refreshToken>>, v |-> 1])
         /\ resp' = Response("registerUser", id, NoNote, body, id, 201,
                             "Registration successful! Please check your email for verification code.",
                             {refreshToken})
         /\ UNCHANGED <<notes, nextNoteId, versions, nextVersionId, issued, now, reqs, scheduler, client>>

NameInputs == {"", "n"}
PasswordInputs == {"", "short", "secret"}
RegisterEmails == {<< >>, <<"a">>, <<"A">>, <<"b">>, <<"B">>}

\* the store before anyone has registered
InitRegister ==
    /\ users = << >>
    /\ notes = << >>
    /\ nextNoteId = 1
    /\ versions = << >>
    /\ nextVersionId = 1
    /\ issued = << >>
    /\ now = 0
    /\ resp = Response("none", NoUser, NoNote, "-", 0, 0, "", NoBody)
    /\ reqs = [v |-> 0, inflight |-> << >>]
    /\ scheduler = Started
    /\ client = Idle

NextRegister ==
    \/ \E name \in NameInputs, email \in RegisterEmails, password \in PasswordInputs :
          registerUser(name, email, password)
    \/ Tick

SpecRegister == InitRegister /\ [][NextRegister]_vars

HasToken(tokens, token) == \E i \in DOMAIN tokens : tokens[i] = token

\* user.refreshTokens.filter((t) => t.token !== refreshToken)
WithoutToken(tokens, token) == SelectSeq(tokens, LAMBDA t : t # token)

\* refreshAccessToken up to the resolution of User.findById
refreshFind(refreshToken) ==
    LET F(status, msg) == Fail("refreshAccessToken", NoUser, NoNote, refreshToken, NoUser, status, msg)
    IN
    /\ Len(reqs.inflight) < MaxReqs
    /\ IF ~IsSome(refreshToken) THEN F(400, "Refresh token required")
       ELSE IF ~JwtVerify(Val(refreshToken)) THEN F(401, "Invalid or expired refresh token")
       ELSE IF Val(refreshToken).id \notin DOMAIN users THEN F(401, "Invalid or expired refresh token")
       ELSE /\ reqs' = [reqs EXCEPT !.inflight = Append(@,
                            [op |-> "refreshAccessToken", caller |-> Val(refreshToken).id,
                             token |-> refreshToken, user |-> users[Val(refreshToken).id],
                             pc |-> "found"])]
            /\ UNCHANGED <<users, scheduler, client, notes, nextNoteId, versions, nextVersionId, issued, now, resp>>

\* refreshAccessToken from the tokenExists check to the response; a
\* VersionError of user.save() is caught like every other error of the try
refreshSave(r) ==
    /\ r \in DOMAIN reqs.inflight
    /\ reqs.inflight[r].pc = "found"
    /\ reqs.inflight[r].op = "refreshAccessToken"
    /\ LET req == reqs.inflight[r]
           user == req.user
           refreshToken == Val(req.token)
           newRefreshToken == generateRefreshToken(req.caller)
           Reply(status, msg, body) ==
               /\ resp' = Response("refreshAccessToken", req.caller, NoNote, req.token, req.caller,
                                   status, msg, body)
               /\ reqs' = [reqs EXCEPT !.inflight[r].pc = "done"]
       IN
       IF ~HasToken(user.refreshTokens, refreshToken) \/ users[req.caller].v # user.v
       THEN /\ Reply(401, "Invalid or expired refresh token", NoBody)
            /\ UNCHANGED <<users, scheduler, client, notes, nextNoteId, versions, nextVersionId, issued, now>>
       ELSE /\ users' = [users EXCEPT ![req.caller].refreshTokens =
                              Append(WithoutToken(user.refreshTokens, refreshToken), newRefreshToken),
                                      ![req.caller].v = @ + 1]
            /\ Reply(200, "", {newRefreshToken})
            /\ UNCHANGED <<notes, nextNoteId, versions, nextVersionId, issued, now, scheduler, client>>

\* logout up to the resolution of User.findById(req.user._id)
logoutFind(caller, refreshToken) ==
    /\ Len(reqs.inflight) < MaxReqs
    /\ caller \in DOMAIN users
    /\ reqs' = [reqs EXCEPT !.inflight = Append(@,
                    [op |-> "logout", caller |-> caller, token |-> refreshToken,
                     user |-> users[caller], pc |-> "found"])]
    /\ UNCHANGED <<users, scheduler, client, notes, nextNoteId, versions, nextVersionId, issued, now, resp>>

\* logout from the filter to the response; a save that changes nothing
\* writes nothing, and a VersionError leaves the handler as a 500
logoutSave(r) ==
    /\ r \in DOMAIN reqs.inflight
    /\ reqs.inflight[r].pc = "found"
    /\ reqs.inflight[r].op = "logout"
    /\ LET req == reqs.inflight[r]
           user == req.user
           remaining == IF IsSome(req.token)
                        THEN WithoutToken(user.refreshTokens, Val(req.token))
                        ELSE << >>
           Reply(status, msg) ==
               /\ resp' = Response("logout", req.caller, NoNote, req.token, req.caller,
                                   status, msg, NoBody)
               /\ reqs' = [reqs EXCEPT !.inflight[r].pc = "done"]
       IN
       IF remaining = user.refreshTokens
       THEN /\ Reply(200, "Logged out successfully")
            /\ UNCHANGED <<users, scheduler, client, notes, nextNoteId, versions, nextVersionId, issued, now>>
       ELSE IF users[req.caller].v # user.v
       THEN /\ Reply(500, "No matching document found")
            /\ UNCHANGED <<users, scheduler, client, notes, nextNoteId, versions, nextVersionId, issued, now>>
       ELSE /\ users' = [users EXCEPT ![req.caller].refreshTokens = remaining,
                                      ![req.caller].v = @ + 1]
            /\ Reply(200, "Logged out successfully")
            /\ UNCHANGED <<notes, nextNoteId, versions, nextVersionId, issued, now, scheduler, client>>

\* the store after one registration in second 0: user 1 holds the refresh
\* token that registration issued
InitTokens ==
    /\ users = << [email |-> <<"a">>, refreshTokens |-> << [id |-> 1, iat |-> 0] >>, v |-> 1] >>
    /\ notes = << >>
    /\ nextNoteId = 1
    /\ versions = << >>
    /\ nextVersionId = 1
    /\ issued = << >>
    /\ now = 0
    /\ resp = Response("none", NoUser, NoNote, "-", 0, 0, "", NoBody)
    /\ reqs = [v |-> 0, inflight |-> << >>]
    /\ scheduler = Started
    /\ client = Idle

\* the tokens a client can present: none, a forged one, and every token the
\* server has signed for user 1 up to now
RefreshTokenInputs == {None, Some(Forged)} \cup {Some([id |-> 1, iat |-> t]) : t \in 0..now}

NextTokens ==
    \/ \E refreshToken \in RefreshTokenInputs : refreshFind(refreshToken)
    \/ \E r \in ReqIds : refreshSave(r)
    \/ \E refreshToken \in RefreshTokenInputs : logoutFind(1, refreshToken)
    \/ \E r \in ReqIds : logoutSave(r)
    \/ Tick

SpecTokens == InitTokens /\ [][NextTokens]_vars

----------------------------------------------------------------------------
(* Starting and stopping the reminder scheduler.  cron.schedule registers  *)
(* a task that calls checkReminders every minute for as long as the task   *)
(* exists; the module keeps no reference to the tasks it registers.        *)

startReminderScheduler ==
    IF scheduler.isSchedulerRunning
    THEN /\ resp' = Response("startReminderScheduler", NoUser, NoNote, "-", 0, 0,
                             "Reminder scheduler already running", NoBody)
         /\ UNCHANGED <<users, scheduler, client, notes, nextNoteId, versions, nextVersionId, issued, now, reqs>>
    ELSE /\ scheduler.tasks < MaxTasks
         /\ scheduler' = [isSchedulerRunning |-> TRUE, tasks |-> scheduler.tasks + 1]
         /\ resp' = Response("startReminderScheduler", NoUser, NoNote, "-", 0, 0,
                             "Reminder scheduler started (runs every minute)", NoBody)
         /\ UNCHANGED <<users, client, notes, nextNoteId, versions, nextVersionId, issued, now, reqs>>

stopReminderScheduler ==
    /\ scheduler' = [scheduler EXCEPT !.isSchedulerRunning = FALSE]
    /\ resp' = Response("stopReminderScheduler", NoUser, NoNote, "-", 0, 0,
                        "Reminder scheduler stopped", NoBody)
    /\ UNCHANGED <<users, client, notes, nextNoteId, versions, nextVersionId, issued, now, reqs>>

\* the callback of a scheduled task fires
cronTask ==
    /\ scheduler.tasks > 0
    /\ checkReminders

NextScheduler ==
    \/ startReminderScheduler
    \/ stopReminderScheduler
    \/ cronTask
    \/ \E reminderAt \in ReminderAtInputs :
          updateNote(1, 1, Undefined, Undefined, None, reminderAt,
                     IF reminderAt = Some(NoReminder) THEN "none" ELSE "pending")
    \/ Tick

SpecScheduler == Init /\ [][NextScheduler]_vars

----------------------------------------------------------------------------
(* Snapshots of two notes of one owner: the second note is created with or *)
(* without a body, and version ids of either note are used on both.        *)

NextSnapshots ==
    \/ \E content \in {"", "c2"} : createNote(1, "t2", content, << >>)
    \/ \E id \in NoteIds : updateNote(1, id, "t3", "c3", None, None, Undefined)
    \/ \E id \in NoteIds : createVersion(1, id)
    \/ \E id \in NoteIds, versionId \in VersionIds : getVersion(1, id, versionId)
    \/ \E id \in NoteIds, versionId \in VersionIds : restoreVersion(1, id, versionId)

SpecSnapshots == Init /\ [][NextSnapshots]_vars

----------------------------------------------------------------------------
(* The browser's API client (services/api.js).  Each request made through  *)
(* api is in one of the states sent, queued (its promise is in             *)
(* failedQueue), refreshing (its interceptor awaits the refresh call),     *)
(* resolved or rejected.  The code between two awaits runs without         *)
(* interruption, so each action is one such run.  The server is the        *)
(* environment: any answer may come back.                                  *)

InQueue(queue, q) == \E i \in DOMAIN queue : queue[i] = q

\* processQueue that forgets to reset failedQueue
processQueueKeepsQueue(c, error) ==
    [c EXCEPT !.requests = [q \in DOMAIN c.requests |->
                               IF InQueue(c.failedQueue, q)
                               THEN [c.requests[q] EXCEPT !.state = IF error THEN "rejected" ELSE "sent"]
                               ELSE c.requests[q]]]

\* processQueue(error, token): every queued promise is rejected, or resolved
\* with the token, upon which its request is sent again; then the queue is reset
processQueue(c, error) ==
    [c EXCEPT !.requests = [q \in DOMAIN c.requests |->
                               IF InQueue(c.failedQueue, q)
                               THEN [c.requests[q] EXCEPT !.state = IF error THEN "rejected" ELSE "sent"]
                               ELSE c.requests[q]],
              !.failedQueue = << >>]

ClientEvent(op, q, status, released) ==
    /\ resp' = Response(op, NoUser, NoNote, "-", q, status, "", released)
    /\ UNCHANGED <<users, scheduler, notes, nextNoteId, versions, nextVersionId, issued, now, reqs>>

\* api(config): a request goes out; login tells whether its url includes '/login'
apiRequest(login) ==
    /\ Len(client.requests) < MaxReqs
    /\ client' = [client EXCEPT !.requests = Append(@, [login |-> login, retry |-> FALSE, state |-> "sent"])]
    /\ ClientEvent("apiRequest", Len(client.requests) + 1, 0, {})

\* the response interceptor's success handler
responseOk(q) ==
    /\ q \in DOMAIN client.requests
    /\ client.requests[q].state = "sent"
    /\ client' = [client EXCEPT !.requests[q].state = "resolved"]
    /\ ClientEvent("response", q, 200, {})

\* the response interceptor's error handler for a response with status 401
response401(q) ==
    /\ q \in DOMAIN client.requests
    /\ client.requests[q].state = "sent"
    /\ IF ~client.requests[q].retry /\ ~client.requests[q].login
       THEN IF client.isRefreshing
            THEN client' = [client EXCEPT !.requests[q].state = "queued",
                                          !.failedQueue = Append(@, q)]
            ELSE IF ~client.refreshToken
            THEN client' = [processQueue(client, TRUE) EXCEPT
                               !.requests[q].retry = TRUE,
                               !.requests[q].state = "rejected",
                               !.refreshToken = FALSE,
                               !.isRefreshing = FALSE]
            ELSE client' = [client EXCEPT !.requests[q].retry = TRUE,
                                          !.requests[q].state = "refreshing",
                                          !.isRefreshing = TRUE]
       ELSE client' = [client EXCEPT !.requests[q].state = "rejected"]
    /\ ClientEvent("response", q, 401, {})

\* the error handler for any other failure, the 10 second timeout included
responseError(q) ==
    /\ q \in DOMAIN client.requests
    /\ client.requests[q].state = "sent"
    /\ client' = [client EXCEPT !.requests[q].state = "rejected"]
    /\ ClientEvent("response", q, 500, {})

\* await axios.post('/api/auth/refresh') settles in the interceptor of q:
\* the try block's remainder or the catch block, then finally
refreshSettles(q, ok) ==
    /\ q \in DOMAIN client.requests
    /\ client.requests[q].state = "refreshing"
    /\ client' = [processQueue(client, ~ok) EXCEPT
                     !.requests[q].state = IF ok THEN "sent" ELSE "rejected",
                     !.refreshToken = ok,
                     !.isRefreshing = FALSE]
    /\ ClientEvent("refreshSettles", q, IF ok THEN 200 ELSE 401,
                   {p \in DOMAIN client.requests : InQueue(client.failedQueue, p)})

\* the login thunk stores the tokens of a successful login
storeLogin ==
    /\ ~client.refreshToken
    /\ client' = [client EXCEPT !.refreshToken = TRUE]
    /\ ClientEvent("login", 0, 200, {})

NextClient ==
    \/ \E login \in BOOLEAN : apiRequest(login)
    \/ \E q \in ReqIds : responseOk(q)
    \/ \E q \in ReqIds : response401(q)
    \/ \E q \in ReqIds : responseError(q)
    \/ \E q \in ReqIds, ok \in BOOLEAN : refreshSettles(q, ok)
    \/ storeLogin

SpecClient == Init /\ [][NextClient]_vars

----------------------------------------------------------------------------
(* Properties of the sharing handlers run one at a time (Spec) *)

\* the entries of a note's sharedWith held by user u
GrantsOf(note, u) == {i \in DOMAIN note.sharedWith : note.sharedWith[i].userId = u}

\* C1: after any sequence of shareNote, respondToShareRequest and removeShare
\* calls run one at a time, every note's sharedWith has at most one entry per
\* grantee user.
C1_OneGrantPerGrantee ==
    \A n \in DOMAIN notes : \A u \in DOMAIN users : Cardinality(GrantsOf(notes[n], u)) <= 1

\* C1 witness: the owner has just asked to share a note again with a user who
\* already holds a grant on it, and the note has grants for two users.
C1_Witness ==
    /\ resp.op = "shareNote"
    /\ resp.msg = "Note already shared with this user"
    /\ Len(notes[resp.note].sharedWith) = 2

\* C5: a grant that appears is pending, and a grant becomes accepted only in a
\* step that is the grantee's own successful respondToShareRequest with status
\* accepted on that note; shareNote (new grant or permission change) and
\* removeShare never make a grant accepted.
C5_AcceptedOnlyByGrantee ==
    [][\A n \in DOMAIN notes' : \A i \in DOMAIN notes'[n].sharedWith :
          LET g == notes'[n].sharedWith[i]
              before == IF n \in DOMAIN notes
                        THEN {notes[n].sharedWith[j].status : j \in GrantsOf(notes[n], g.userId)}
                        ELSE {}
          IN /\ before = {} => g.status = "pending"
             /\ (g.status = "accepted" /\ "accepted" \notin before) =>
                   /\ resp'.op = "respondToShareRequest"
                   /\ resp'.caller = g.userId
                   /\ resp'.note = n
                   /\ resp'.arg = "accepted"
                   /\ resp'.status = 200]_vars

\* C5 witness: the owner changed the permission of a grant the grantee had
\* accepted, next to a second grant that is still pending.
C5_Witness ==
    /\ resp.op = "shareNote"
    /\ resp.msg = "Permission updated"
    /\ \E i, j \in DOMAIN notes[resp.note].sharedWith :
          /\ notes[resp.note].sharedWith[i].userId = resp.target
          /\ notes[resp.note].sharedWith[i].status = "accepted"
          /\ notes[resp.note].sharedWith[j].status = "pending"

\* the (note, permission) pairs of u's accepted grants, and the notes of u's
\* pending grants
AcceptedGrants(u) ==
    UNION {{<<n, notes[n].sharedWith[i].permission>> :
               i \in {j \in GrantsOf(notes[n], u) : notes[n].sharedWith[j].status = "accepted"}} :
           n \in DOMAIN notes}

PendingGrants(u) ==
    {n \in DOMAIN notes : \E i \in GrantsOf(notes[n], u) : notes[n].sharedWith[i].status = "pending"}

\* C6: for every user u, getSharedWithMe(u) lists exactly the notes on which u
\* holds an accepted grant, each with that grant's permission, and
\* getPendingShares(u) lists exactly the notes on which u's grant is pending;
\* the same holds of the body of the response just sent.
C6_ListsMatchGrants ==
    /\ \A u \in DOMAIN users :
          /\ {<<d.note, d.perm>> : d \in SharedWithMe(u)} = AcceptedGrants(u)
          /\ {d.note : d \in PendingShares(u)} = PendingGrants(u)
    /\ resp.op = "getSharedWithMe" =>
          {<<d.note, d.perm>> : d \in resp.body} = AcceptedGrants(resp.caller)
    /\ resp.op = "getPendingShares" =>
          {d.note : d \in resp.body} = PendingGrants(resp.caller)

\* C6 witness: a user who accepted an edit grant has just listed the notes
\* shared with them and got the note back.
C6_Witness ==
    /\ resp.op = "getSharedWithMe"
    /\ \E d \in resp.body : d.perm = "edit"

\* C7: a shareNote whose e-mail resolves to the calling owner fails with 400
\* "Cannot share note with yourself" and writes nothing, and no note ever
\* carries a grant whose grantee is the note's owner.
C7_NoSelfGrant ==
    /\ [](\A n \in DOMAIN notes : GrantsOf(notes[n], notes[n].userId) = {})
    /\ [][(/\ resp'.op = "shareNote"
           /\ resp'.target # NoUser
           /\ resp'.target = resp'.caller)
          => (/\ resp'.status = 400
              /\ resp'.msg = "Cannot share note with yourself"
              /\ notes' = notes)]_vars

\* C7 witness: the owner of a note that already has a grant asked to share it
\* with their own address and was refused.
C7_Witness ==
    /\ resp.op = "shareNote"
    /\ resp.msg = "Cannot share note with yourself"
    /\ resp.target = notes[resp.note].userId
    /\ Len(notes[resp.note].sharedWith) > 0

\* C8: a successful or conflicting shareNote for a grantee who already holds a
\* grant: with a different permission the entry's permission is replaced and
\* nothing else of sharedWith changes (status, position, the other entries);
\* with the same permission the call fails with 400 "Note already shared with
\* this user" and the notes are unchanged.
C8_RegrantInPlace ==
    [][(/\ resp'.op = "shareNote"
        /\ resp'.target # NoUser
        /\ resp'.note \in DOMAIN notes
        /\ GrantsOf(notes[resp'.note], resp'.target) # {})
       => LET old == notes[resp'.note].sharedWith
              idx == CHOOSE i \in GrantsOf(notes[resp'.note], resp'.target) : TRUE
          IN IF old[idx].permission # resp'.arg
             THEN /\ resp'.status = 200
                  /\ resp'.msg = "Permission updated"
                  /\ notes' = [notes EXCEPT ![resp'.note].sharedWith =
                                  [old EXCEPT ![idx].permission = resp'.arg]]
                  /\ notes'[resp'.note].sharedWith[idx].status = old[idx].status
             ELSE /\ resp'.status = 400
                  /\ resp'.msg = "Note already shared with this user"
                  /\ notes' = notes]_vars

\* C8 witness: the permission of an accepted grant in second position was
\* changed and the grant is still accepted and still second.
C8_Witness ==
    /\ resp.op = "shareNote"
    /\ resp.msg = "Permission updated"
    /\ Len(notes[resp.note].sharedWith) = 2
    /\ notes[resp.note].sharedWith[2].userId = resp.target
    /\ notes[resp.note].sharedWith[2].status = "accepted"

----------------------------------------------------------------------------
(* Properties of access control over one shared note (SpecAccess) *)

\* user u holds an accepted grant on the note (with permission p)
HasAccepted(note, u) ==
    \E i \in GrantsOf(note, u) : note.sharedWith[i].status = "accepted"

HasAcceptedWith(note, u, p) ==
    \E i \in GrantsOf(note, u) :
        note.sharedWith[i].status = "accepted" /\ note.sharedWith[i].permission = p

ReadOps == {"getNotes", "getNoteById", "getVersionHistory", "getVersion"}

\* C3: whatever getNotes, getNoteById, getVersionHistory or getVersion hands
\* out of a note (its title, body or tags, current or of a snapshot) goes to
\* the note's owner or to a user holding an accepted grant on it.
C3_ContentOnlyWithAccess ==
    (resp.op \in ReadOps /\ resp.status = 200) =>
        \A d \in resp.body :
            /\ d.note \in DOMAIN notes
            /\ \/ notes[d.note].userId = resp.caller
               \/ HasAccepted(notes[d.note], resp.caller)

\* C4: for a user holding an accepted edit grant on a note, updateNote on the
\* note succeeds and writes the title, body and tags asked for, while
\* deleteNote and restoreVersion fail with 403 and change nothing.
C4_EditGranteeUpdates ==
    [][(/\ resp'.note \in DOMAIN notes
        /\ HasAcceptedWith(notes[resp'.note], resp'.caller, "edit"))
       => /\ resp'.op = "updateNote" => resp'.status = 200
          /\ resp'.op \in {"deleteNote", "restoreVersion"} =>
                (resp'.status = 403 /\ notes' = notes /\ versions' = versions)]_vars

OwnerOnlyOps ==
    {"shareNote", "removeShare", "generateShareLink", "revokeShareLink",
     "restoreVersion", "deleteNote"}

\* the step is an owner-only handler called on an existing note by a user who
\* does not own it
NonOwnerCall ==
    /\ resp'.op \in OwnerOnlyOps
    /\ resp'.note \in DOMAIN notes
    /\ notes[resp'.note].userId # resp'.caller

\* C9 as stated: shareNote, removeShare, generateShareLink, revokeShareLink,
\* restoreVersion and deleteNote called by a user who is not the note's owner
\* all fail with 403 and leave the notes (grants, link token and expiry,
\* title, body, tags), the snapshots and the issued links unchanged.
C9_NonOwnerForbidden ==
    [][NonOwnerCall =>
          (resp'.status = 403 /\ notes' = notes /\ versions' = versions /\ issued' = issued)]_vars

\* C9 amended: the same, except that shareNote checks the request body before
\* the owner: a missing e-mail or a permission other than view / edit is
\* answered with 400 whoever calls; every other call by a non-owner fails with
\* 403, and none of them changes notes, snapshots or issued links.
C9_NonOwnerRefused ==
    [][NonOwnerCall =>
          /\ notes' = notes /\ versions' = versions /\ issued' = issued
          /\ \/ resp'.status = 403
             \/ /\ resp'.op = "shareNote"
                /\ resp'.status = 400
                /\ resp'.msg \in {"Please provide user email", "Invalid permission"}
          /\ (resp'.op = "shareNote" /\ resp'.msg = "Invalid permission") =>
                resp'.arg \notin {"view", "edit"}]_vars

\* C9 witness: a user with an accepted grant was refused a restore on a note
\* that has a snapshot and a public link.
C9_Witness ==
    /\ resp.op = "restoreVersion"
    /\ resp.status = 403
    /\ resp.note \in DOMAIN notes
    /\ HasAccepted(notes[resp.note], resp.caller)
    /\ notes[resp.note].shareToken # NoToken
    /\ VersionsOf(versions, resp.note) # {}

----------------------------------------------------------------------------
(* Properties of the public link (SpecLink) *)

\* the token most recently generated for note n, NoToken if none was
LatestToken(n) ==
    LET ts == {t \in DOMAIN issued : issued[t] = n}
    IN IF ts = {} THEN NoToken ELSE CHOOSE t \in ts : \A u \in ts : u <= t

\* C10: a token resolves (Note.findOne by shareToken) to at most one note, and
\* only while it is the token most recently generated for that note; a
\* getSharedNote with a token that a later generateShareLink replaced answers
\* 404, and one that answered 200 used the latest token of the note it returned.
C10_OnlyLatestTokenResolves ==
    /\ \A t \in DOMAIN issued :
          /\ Cardinality({n \in DOMAIN notes : notes[n].shareToken = t}) <= 1
          /\ NoteFindOneByToken(t) # NoNote =>
                (NoteFindOneByToken(t) = issued[t] /\ t = LatestToken(issued[t]))
    /\ resp.op = "getSharedNote" =>
          /\ (resp.target \in DOMAIN issued /\ resp.target # LatestToken(issued[resp.target]))
                => resp.status = 404
          /\ resp.status = 200 => resp.target = LatestToken(resp.note)

\* C10 witness: a note's link was generated twice and the first token was then
\* looked up and not found, while the note still carries the second.
C10_Witness ==
    /\ resp.op = "getSharedNote"
    /\ resp.status = 404
    /\ resp.target \in DOMAIN issued
    /\ issued[resp.target] \in DOMAIN notes
    /\ notes[issued[resp.target]].shareToken \notin {NoToken, resp.target}

----------------------------------------------------------------------------
(* Properties of interleaved shareNote requests (SpecConc) *)

\* the grant list one shareNote request leaves when it runs alone
GrantedAlone(sharedWith, req) ==
    LET userToShare == UserFindOneByEmail(req.email)
        alreadyShared == ShareIndexOf(sharedWith, userToShare)
    IN IF userToShare = NoUser \/ IsSelf(userToShare, req.caller) THEN sharedWith
       ELSE IF alreadyShared # 0
       THEN SetPermission(sharedWith, alreadyShared, req.permission)
       ELSE Append(sharedWith, NewShare(userToShare, req.permission))

RECURSIVE GrantedInOrder(_, _, _)
GrantedInOrder(sharedWith, order, k) ==
    IF k > Len(order) THEN sharedWith
    ELSE GrantedInOrder(GrantedAlone(sharedWith, reqs.inflight[order[k]]), order, k + 1)

SerialOrders ==
    LET n == Len(reqs.inflight)
    IN {order \in [1..n -> 1..n] : \A i, j \in 1..n : order[i] = order[j] => i = j}

AllDone ==
    /\ Len(reqs.inflight) = MaxReqs
    /\ \A r \in DOMAIN reqs.inflight : reqs.inflight[r].pc = "done"

\* C2: once the interleaved shareNote requests on note 1 have all answered,
\* the note's grant list is the list some serial order of those requests
\* leaves: no grant lost, no second grant for one grantee.
C2_InterleavedGrantsSerializable ==
    AllDone =>
        \E order \in SerialOrders : notes[1].sharedWith = GrantedInOrder(<< >>, order, 1)

----------------------------------------------------------------------------
(* Properties of the public link: resolution outcomes and expiry (SpecLink) *)

\* the notes that hold the token a getSharedNote response answers
HoldersOf(token) == {n \in DOMAIN notes : notes[n].shareToken = token}

\* C11: every getSharedNote(token) answers 404 when no note holds the token
\* (never issued, replaced or revoked), 410 when a note holds it with an
\* expiry set and now > expiry, and otherwise 200 with that note's title,
\* content and tags and permission view; 404 and 410 are different outcomes.
C11_ResolveOutcomes ==
    [][(resp'.op = "getSharedNote" /\ notes' = notes /\ now' = now) =>
          LET token == resp'.target
              holders == HoldersOf(token)
          IN IF holders = {} THEN resp'.status = 404 /\ resp'.body = NoBody
             ELSE \E n \in holders :
                    IF notes[n].shareTokenExpiry # NoExpiry /\ now > notes[n].shareTokenExpiry
                    THEN resp'.status = 410 /\ resp'.body = NoBody
                    ELSE /\ resp'.status = 200
                         /\ resp'.body = {Doc(n, notes[n].title, notes[n].content,
                                              notes[n].tags, "view", token)}]_vars

\* C11 witness: a token a note still holds was looked up after its expiry
\* and answered 410.
C11_Witness ==
    /\ resp.op = "getSharedNote"
    /\ resp.status = 410
    /\ HoldersOf(resp.target) # {}

\* C12: every successful generateShareLink stores now + expiresIn as the
\* expiry when the request carries an expiresIn (0 included), and stores no
\* expiry only when the request carries none.
C12_ExpiryIsIssueTimePlusTtl ==
    [][(resp'.op = "generateShareLink" /\ resp'.status = 200 /\ issued' # issued) =>
          LET stored == notes'[resp'.note].shareTokenExpiry
          IN IF IsSome(resp'.arg) THEN stored = now + Val(resp'.arg)
             ELSE stored = NoExpiry]_vars

----------------------------------------------------------------------------
(* Properties of the version archive at the cap (SpecVersions) *)

VersionIdsOf(vs, n) == {vs[i].id : i \in VersionsOf(vs, n)}

VersionById(vs, vid) == vs[CHOOSE i \in DOMAIN vs : vs[i].id = vid]

\* C18: no snapshot in the archive refers to a note that was deleted: after
\* a successful deleteNote every retained snapshot belongs to a stored note.
C18_DeleteCascadesToVersions ==
    \A i \in DOMAIN versions : versions[i].noteId \in DOMAIN notes

\* C13: a note never has more than 20 snapshots, and a createVersion or
\* restoreVersion that inserts when the note already has 20 removes exactly
\* one snapshot, one with the earliest creation time, and leaves the other 19
\* unchanged next to the new one.
C13_CapAndEvictOldest ==
    /\ [](\A n \in NoteIds : CountVersions(versions, n) <= 20)
    /\ [][(nextVersionId' # nextVersionId /\ CountVersions(versions, 1) = 20) =>
             LET old == VersionIdsOf(versions, 1)
                 new == VersionIdsOf(versions', 1)
             IN /\ new \ old = {nextVersionId}
                /\ Cardinality(old \ new) = 1
                /\ \A gone \in old \ new : \A vid \in old :
                      VersionById(versions, gone).createdAt <= VersionById(versions, vid).createdAt
                /\ \A vid \in old \cap new : VersionById(versions', vid) = VersionById(versions, vid)
                /\ CountVersions(versions', 1) = 20]_vars

\* C13 witness: a snapshot inserted into the full archive is retained, the
\* archive is still full and the first snapshot of the note is gone.
C13_Witness ==
    /\ CountVersions(versions, 1) = 20
    /\ \E i \in DOMAIN versions : versions[i].id >= 1 /\ versions[i].versionNumber = 21
    /\ \A i \in DOMAIN versions : versions[i].versionNumber > 1

\* C15: the retained snapshots of a note carry sequence numbers that are at
\* least 1 and strictly increase in creation order (the order of insertion),
\* also once inserts have passed the cap of 20.
C15_SequenceNumbersIncrease ==
    \A i, j \in DOMAIN versions :
        /\ versions[i].versionNumber >= 1
        /\ (i < j /\ versions[i].noteId = versions[j].noteId) =>
              versions[i].versionNumber < versions[j].versionNumber

\* C16: every successful restoreVersion(note, v) inserts a snapshot holding
\* the note's title, content and tags as they were before the call, sets
\* the note's title, content and tags to those of v and leaves its other
\* fields alone; after the call that snapshot is in the archive under the
\* note's id, where getVersion finds it.
C16_RestoreSnapshotsFirst ==
    [][(resp'.op = "restoreVersion" /\ resp'.status = 200 /\ nextVersionId' # nextVersionId) =>
          LET n == resp'.note
              v == VersionById(versions, resp'.target)
          IN /\ \E i \in DOMAIN versions' :
                   /\ versions'[i].id = nextVersionId
                   /\ versions'[i].noteId = n
                   /\ versions'[i].title = notes[n].title
                   /\ versions'[i].content = notes[n].content
                   /\ versions'[i].tags = notes[n].tags
             /\ notes'[n] = [notes[n] EXCEPT !.title = v.title, !.content = v.content,
                                             !.tags = v.tags]]_vars

\* C16 witness: a note with tags was restored to an untagged version, and
\* the snapshot taken by that restore holds the tags.
C16_Witness ==
    /\ resp.op = "restoreVersion"
    /\ resp.status = 200
    /\ notes[1].tags = << >>
    /\ \E i \in DOMAIN versions :
          versions[i].id = nextVersionId - 1 /\ versions[i].tags # << >>

----------------------------------------------------------------------------
(* Properties of interleaved createVersion requests (SpecVersionsConc) *)

\* C14: while createVersion requests on one note interleave, the note never
\* has more than 20 snapshots and no step removes more than one of them.
C14_CapUnderInterleaving ==
    /\ [](CountVersions(versions, 1) <= 20)
    /\ [][Cardinality(VersionIdsOf(versions, 1) \ VersionIdsOf(versions', 1)) <= 1]_vars

----------------------------------------------------------------------------
(* Properties of the reminder sweep (SpecReminders) *)

\* the entries of a sweep's dispatch log that concern note n
AttemptsFor(log, n) == {i \in DOMAIN log : log[i].note = n}

\* C19: in every sweep, a note whose reminder is pending but not yet due, or
\* not pending (already sent), gets no dispatch and keeps its status; a note
\* whose reminder is pending and due gets exactly one dispatch attempt, and
\* when that attempt succeeds its status becomes sent.
C19_SweepDispatchesDueOnce ==
    [][(resp'.op = "checkReminders" /\ now' = now) =>
          \A n \in DOMAIN notes :
              IF /\ notes[n].reminderStatus = "pending"
                 /\ notes[n].reminderAt # NoReminder
                 /\ now >= notes[n].reminderAt
              THEN /\ Cardinality(AttemptsFor(resp'.body, n)) = 1
                   /\ \A i \in AttemptsFor(resp'.body, n) :
                         resp'.body[i].outcome = "sent" => notes'[n].reminderStatus = "sent"
              ELSE /\ AttemptsFor(resp'.body, n) = {}
                   /\ notes'[n] = notes[n]]_vars

\* C19 witness: a sweep at or after the due hour dispatched the reminder of
\* note 1 and marked it sent.
C19_Witness ==
    /\ resp.op = "checkReminders"
    /\ 1 \in DOMAIN notes
    /\ notes[1].reminderStatus = "sent"
    /\ notes[1].reminderAt <= now
    /\ \E i \in AttemptsFor(resp.body, 1) : resp.body[i].outcome = "sent"

\* C20: in every sweep each due pending note gets its dispatch attempt
\* whatever happened to the others; a note whose dispatch failed is left as
\* it was (pending), every note whose dispatch succeeded is marked sent, and
\* the sweep ends without an error.
C20_FailureIsolated ==
    [][(resp'.op = "checkReminders" /\ now' = now) =>
          /\ resp'.status = 0
          /\ \A n \in DOMAIN notes :
                (/\ notes[n].reminderStatus = "pending"
                 /\ notes[n].reminderAt # NoReminder
                 /\ now >= notes[n].reminderAt) =>
                   /\ AttemptsFor(resp'.body, n) # {}
                   /\ \A i \in AttemptsFor(resp'.body, n) :
                         IF resp'.body[i].outcome = "failed"
                         THEN notes'[n] = notes[n]
                         ELSE notes'[n].reminderStatus = "sent"]_vars

\* C20 witness: one sweep failed to dispatch note 1, which is still pending,
\* and went on to dispatch note 2 and mark it sent.
C20_Witness ==
    /\ resp.op = "checkReminders"
    /\ DOMAIN notes = {1, 2}
    /\ \E i \in AttemptsFor(resp.body, 1) : resp.body[i].outcome = "failed"
    /\ \E i \in AttemptsFor(resp.body, 2) : resp.body[i].outcome = "sent"
    /\ notes[1].reminderStatus = "pending"
    /\ notes[2].reminderStatus = "sent"

\* C21: under the timer's fairness and a mail service that eventually
\* accepts, a note whose reminder is pending and due is eventually marked
\* sent; and as long as it is pending and due every sweep makes a dispatch
\* attempt for it.
C21_DueReminderEventuallySent ==
    /\ (1 \in DueNotes) ~> (notes[1].reminderStatus = "sent")
    /\ [][(resp'.op = "checkReminders" /\ now' = now) =>
             \A n \in DueNotes : AttemptsFor(resp'.body, n) # {}]_vars

\* C21 witness: the reminder of note 1 was not sent in the hour it fell due
\* and a sweep of a later hour has marked it sent.
C21_Witness ==
    /\ resp.op = "checkReminders"
    /\ notes[1].reminderStatus = "sent"
    /\ notes[1].reminderAt # NoReminder
    /\ notes[1].reminderAt < now
    /\ \E i \in AttemptsFor(resp.body, 1) : resp.body[i].outcome = "sent"

\* C24: every successful updateNote that changes a note's reminderAt leaves
\* status none when the new reminderAt is null, whatever the status was, and
\* leaves status pending when it sets a timestamp on a note whose status was
\* sent.
C24_ReminderStatusFollowsTimestamp ==
    [][(resp'.op = "updateNote" /\ resp'.status = 200 /\ resp'.note \in DOMAIN notes) =>
          LET n == resp'.note
          IN notes'[n].reminderAt # notes[n].reminderAt =>
                IF notes'[n].reminderAt = NoReminder
                THEN notes'[n].reminderStatus = "none"
                ELSE notes[n].reminderStatus = "sent" =>
                        notes'[n].reminderStatus = "pending"]_vars

----------------------------------------------------------------------------
(* Properties of registration (SpecRegister) *)

\* C25: no two users share an e-mail address, compared without regard to
\* case, and a registerUser that carries all three fields and an e-mail that,
\* lowercased, already belongs to a user answers 400 "User already exists
\* with this email" and leaves the users as they were.
C25_DuplicateEmailRejected ==
    /\ [](\A u, w \in DOMAIN users :
             u # w => ToLowerCase(users[u].email) # ToLowerCase(users[w].email))
    /\ [][(/\ now' = now
           /\ resp'.op = "registerUser"
           /\ resp'.arg.name # "" /\ resp'.arg.email # << >> /\ resp'.arg.password # ""
           /\ \E u \in DOMAIN users : users[u].email = ToLowerCase(resp'.arg.email))
          => /\ resp'.status = 400
             /\ resp'.msg = "User already exists with this email"
             /\ users' = users]_vars

\* a registration of "A" was refused because "a" is registered
C25_Witness ==
    /\ resp.op = "registerUser"
    /\ resp.status = 400
    /\ resp.msg = "User already exists with this email"
    /\ resp.arg.email = <<"A">>
    /\ \E u \in DOMAIN users : users[u].email = <<"a">>

----------------------------------------------------------------------------
(* Properties of interleaved refresh and logout requests (SpecTokens) *)

Stored(us, token) == token.id \in DOMAIN us /\ HasToken(us[token.id].refreshTokens, token)

Answered(r, op) ==
    /\ r \in DOMAIN reqs.inflight
    /\ reqs.inflight[r].op = op
    /\ reqs.inflight[r].pc = "found"
    /\ reqs'.inflight[r].pc = "done"

\* C29: a refresh token is accepted at most once.  A refreshAccessToken that
\* answers 200 for token R found R stored and leaves R no longer stored; one
\* that answers while R is not stored answers 401 and writes nothing; and a
\* logout of R's owner that answers 200 leaves R (or, naming no token, every
\* token of the caller) no longer stored.
C29_RefreshTokenAcceptedOnce ==
    [][\A r \in ReqIds :
          /\ (Answered(r, "refreshAccessToken") /\ resp'.status = 200) =>
                /\ Stored(users, Val(reqs.inflight[r].token))
                /\ ~Stored(users', Val(reqs.inflight[r].token))
          /\ (Answered(r, "refreshAccessToken") /\ ~Stored(users, Val(reqs.inflight[r].token))) =>
                /\ resp'.status = 401
                /\ users' = users
          /\ (Answered(r, "logout") /\ resp'.status = 200) =>
                IF IsSome(reqs.inflight[r].token)
                THEN ~HasToken(users'[reqs.inflight[r].caller].refreshTokens, Val(reqs.inflight[r].token))
                ELSE users'[reqs.inflight[r].caller].refreshTokens = << >>]_vars

----------------------------------------------------------------------------
(* Properties of starting and stopping the scheduler (SpecScheduler) *)

\* C26: at most one sweep task is scheduled at any time, and a sweep runs
\* only while the scheduler is started: no checkReminders step happens
\* between a stopReminderScheduler and the next startReminderScheduler.
C26_OneTaskAndStopStops ==
    /\ [](scheduler.tasks <= 1)
    /\ [][(resp'.op = "checkReminders" /\ (resp' # resp \/ notes' # notes))
             => scheduler.isSchedulerRunning]_vars

----------------------------------------------------------------------------
(* Properties of snapshots across notes (SpecSnapshots) *)

SnapshotOf(vs, versionId, id) ==
    {i \in DOMAIN vs : vs[i].id = versionId /\ vs[i].noteId = id}

C28_SnapshotAcceptsEveryNote ==
    [][(resp'.op = "createVersion" /\ resp'.note \in DOMAIN notes /\ ~NotOwner(notes[resp'.note], resp'.caller))
          => resp'.status = 201]_vars

----------------------------------------------------------------------------
(* Properties of the API client (SpecClient) *)

InState(st) == {q \in DOMAIN client.requests : client.requests[q].state = st}

\* one refresh at most, isRefreshing tells whether it is running, and the
\* queue holds exactly the queued requests, each once, and only while a
\* refresh is running
QueueConsistent ==
    /\ Cardinality(InState("refreshing")) <= 1
    /\ client.isRefreshing <=> InState("refreshing") # {}
    /\ \A q \in DOMAIN client.requests :
          client.requests[q].state = "queued" <=> InQueue(client.failedQueue, q)
    /\ \A i, j \in DOMAIN client.failedQueue :
          client.failedQueue[i] = client.failedQueue[j] => i = j
    /\ ~client.isRefreshing => client.failedQueue = << >>

\* when the refresh settles every queued request is sent again (success) or
\* rejected (failure), the queue is empty and isRefreshing is false
SettleReleasesAll ==
    resp'.op = "refreshSettles" =>
        /\ client'.failedQueue = << >>
        /\ ~client'.isRefreshing
        /\ \A q \in InState("queued") :
              client'.requests[q].state = IF resp'.status = 200 THEN "sent" ELSE "rejected"

----------------------------------------------------------------------------
(* Properties of overlapping sweeps and updates (SpecSweeps) *)

\* sweep s has dispatched note n successfully and not yet saved it
AwaitingSave(rq, s, n) ==
    /\ rq.inflight[s].pc = "save"
    /\ rq.inflight[s].due[rq.inflight[s].pos] = n

\* C22: whenever a sweep's dispatch for a note succeeds, the stored reminder
\* is not already sent and no other sweep has a successful dispatch for that
\* note waiting to be saved: overlapping sweeps never both dispatch one
\* pending reminder, and none dispatches a reminder that is already sent.
C22_NoDoubleDispatch ==
    [][\A s \in DOMAIN reqs.inflight :
          (reqs.inflight[s].pc = "send" /\ reqs'.inflight[s].pc = "save") =>
             LET n == reqs.inflight[s].due[reqs.inflight[s].pos]
             IN /\ n \in DOMAIN notes => notes[n].reminderStatus # "sent"
                /\ \A o \in DOMAIN reqs.inflight \ {s} : ~AwaitingSave(reqs, o, n)]_vars

\* C23: when a sweep saves a note whose reminder the owner has set anew or
\* cleared since the sweep read it, the stored reminder timestamp and status
\* stay as the owner left them.
C23_OwnerChangeSurvivesSweep ==
    [][\A s \in DOMAIN reqs.inflight :
          (reqs.inflight[s].pc = "save" /\ reqs'.inflight[s].pc # "save") =>
             LET n == reqs.inflight[s].due[reqs.inflight[s].pos]
                 seen == reqs.inflight[s].read[n]
             IN (/\ n \in DOMAIN notes
                 /\ notes[n].reminderAt # seen.reminderAt) =>
                   /\ notes'[n].reminderAt = notes[n].reminderAt
                   /\ notes'[n].reminderStatus = notes[n].reminderStatus]_vars

====
